---- MODULE Spec2Model ----
(***************************************************************************)
(* Repository snapshot cache of devmatch-backend: the RepoSnapshot model,  *)
(* the GitHub client, and the service/controller operations that read,     *)
(* refresh and fall back on cached snapshots.                              *)
(*                                                                         *)
(* Time is counted in whole hours.  Every await of the JavaScript code (a  *)
(* store read, a store write, a remote call) is a step boundary: the code  *)
(* between two awaits runs atomically, and tasks of different requests     *)
(* interleave at the awaits.                                               *)
(***************************************************************************)
EXTENDS Integers, Sequences, FiniteSets, TLC

VARIABLES store, now, ticks, started, task

vars == <<store, now, ticks, started, task>>

(* ------------------------------ bounds -------------------------------- *)
MaxOps == 2
MaxTicks == 1
MaxTargets == 3

Procs == {1, 2}

(* ----------------------------- constants ------------------------------ *)
SyncWindowHours == 24
FreshWindowHours == 1
ReadmeWindowHours == 168
ReadmeMaxLength == 50000

(* ------------------------- values and inputs -------------------------- *)
NullTime == -1
NullStr == "null"
NullReadme == -1

FullNames == {"a/x", "b/y"}
GithubIds == {1, 2}
RepoIds == {1, 2}
TickSteps == {1, 24, 25}
ReadmeLens == {100, 50001}
LangMaps == { <<[name |-> "Go", bytes |-> 300], [name |-> "JS", bytes |-> 100]>>,
              <<[name |-> "Go", bytes |-> 200], [name |-> "JS", bytes |-> 100]>> }

Owner(fullName) == IF fullName = "a/x" THEN "a" ELSE "b"
RepoName(fullName) == IF fullName = "a/x" THEN "x" ELSE "y"
JoinName(owner, repo) == IF owner = "a" /\ repo = "x" THEN "a/x" ELSE "b/y"

Payloads ==
  { [description |-> "d1", stargazers_count |-> 10, forks_count |-> 2,
     watchers_count |-> 7, open_issues_count |-> 1],
    [description |-> "d2", stargazers_count |-> 11, forks_count |-> 3,
     watchers_count |-> 8, open_issues_count |-> 0] }

(* the JSON body of GET /repos/{owner}/{name} and GET /repositories/{id} *)
GithubData(id, fullName, p) ==
  [id |-> id, full_name |-> fullName,
   owner |-> [login |-> Owner(fullName)], name |-> RepoName(fullName),
   description |-> p.description,
   stargazers_count |-> p.stargazers_count, forks_count |-> p.forks_count,
   watchers_count |-> p.watchers_count,
   open_issues_count |-> p.open_issues_count]

NoData == GithubData(0, "none", [description |-> "none", stargazers_count |-> 0,
                                 forks_count |-> 0, watchers_count |-> 0,
                                 open_issues_count |-> 0])

(* ------------------------------ ApiError ------------------------------ *)
ApiError(statusCode, message) == [statusCode |-> statusCode, message |-> message]
badRequest(message) == ApiError(400, message)
unauthorized(message) == ApiError(401, message)
notFound(message) == ApiError(404, message)
tooManyRequests(message) == ApiError(429, message)
internal(message) == ApiError(500, message)

NoErr == ApiError(-1, "none")

(* A failed request: status 0 stands for "no HTTP response" (connection    *)
(* error or timeout), any other value is the HTTP status of the response.  *)
FailStatuses == {0, 404, 500}

RemoteMessage == "remote message"

(* the interceptor without its 404 case *)
Interceptor_No404(status) ==
  IF status # 0
  THEN IF status = 403
       THEN tooManyRequests("GitHub API rate limit exceeded. Please try again later.")
       ELSE IF status = 401 THEN unauthorized("GitHub authentication failed")
       ELSE badRequest(RemoteMessage)
  ELSE internal("Failed to connect to GitHub API")

(* A rejected request as the interceptor receives it: the status of the   *)
(* response (0: no response), data.message (NullStr: none) and the        *)
(* headers x-ratelimit-remaining and x-ratelimit-reset (NoHeader: absent). *)
NoHeader == -1
Response(status, message, remaining, reset) ==
  [status |-> status, message |-> message, remaining |-> remaining, reset |-> reset]
NoResponse == Response(0, NullStr, NoHeader, NoHeader)

ErrorStatuses == {400, 401, 403, 404, 500}
Failures ==
  {NoResponse} \cup
  {Response(status, message, remaining, reset) :
     status \in ErrorStatuses, message \in {NullStr, RemoteMessage},
     remaining \in {NoHeader, 0, 59}, reset \in {NoHeader, 3}}

(* the rejection handler without its 401 case *)
onRejected_No401(error) ==
  IF error.status # 0
  THEN IF error.status = 404 THEN notFound("GitHub resource not found")
       ELSE IF error.status = 403
            THEN tooManyRequests("GitHub API rate limit exceeded. Please try again later.")
       ELSE badRequest(IF error.message # NullStr THEN error.message
                       ELSE "GitHub API error")
  ELSE internal("Failed to connect to GitHub API")

(* rejection handler of the response interceptor of the GitHubService     *)
(* client; the reset header is read for the log line only                 *)
onRejected(error) ==
  IF error.status # 0
  THEN IF error.status = 404 THEN notFound("GitHub resource not found")
       ELSE IF error.status = 403
            THEN tooManyRequests("GitHub API rate limit exceeded. Please try again later.")
       ELSE IF error.status = 401 THEN unauthorized("GitHub authentication failed")
       ELSE badRequest(IF error.message # NullStr THEN error.message
                       ELSE "GitHub API error")
  ELSE internal("Failed to connect to GitHub API")

(* the interceptor applied to a response with that status and a message *)
Interceptor(status) == onRejected(Response(status, RemoteMessage, NoHeader, NoHeader))

(* --------------------------- GitHubService ---------------------------- *)
(* Math.round(a / b) for a >= 0, b > 0 *)
Round(a, b) == (2 * a + b) \div (2 * b)

RECURSIVE SumBytes(_)
SumBytes(m) == IF m = <<>> THEN 0 ELSE Head(m).bytes + SumBytes(Tail(m))

(* A percentage is kept in tenths of a percent (750 is 75%, 333 is 33.3%). *)
(* percentage: totalBytes > 0 ? Math.round((bytes / totalBytes) * 100) : 0 *)
SyncPercentages(m) ==
  [i \in 1..Len(m) |->
     [name |-> m[i].name, bytes |-> m[i].bytes,
      percentage |-> IF SumBytes(m) > 0
                     THEN 10 * Round(m[i].bytes * 100, SumBytes(m)) ELSE 0]]

(* getReadme: the raw README (its length), null on a 404, or the error *)
(* getReadme without its catch block: a 404 is thrown like any failure *)
getReadme_Throw404(status, len) ==
  IF status = 200 THEN [threw |-> FALSE, readme |-> len, err |-> NoErr]
  ELSE [threw |-> TRUE, readme |-> NullReadme, err |-> Interceptor(status)]

getReadme(status, len) ==
  IF status = 200 THEN [threw |-> FALSE, readme |-> len, err |-> NoErr]
  ELSE IF Interceptor(status).statusCode = 404
       THEN [threw |-> FALSE, readme |-> NullReadme, err |-> NoErr]
       ELSE [threw |-> TRUE, readme |-> NullReadme, err |-> Interceptor(status)]

(* only null counts as no README *)
NoReadme_NullOnly(readme) == readme = NullReadme

(* !value of a README: null and the empty string are falsy *)
NoReadme(readme) == readme = NullReadme \/ readme = 0

(* ---------------------------- RepoSnapshot ---------------------------- *)
NoDoc ==
  [_id |-> 0, githubId |-> 0, ownerLogin |-> "none", name |-> "none",
   fullName |-> "none", description |-> "none",
   stars |-> 0, forks |-> 0, watchers |-> 0, openIssues |-> 0,
   readme |-> NullReadme, readmeFetchedAt |-> NullTime, languages |-> <<>>,
   lastSyncedAt |-> NullTime, syncError |-> NullStr]

(* a new document that does not take the githubId it is created for *)
NewDoc_NoId(githubId, t) ==
  [NoDoc EXCEPT !.lastSyncedAt = t]

(* new RepoSnapshot({ githubId }) with the schema defaults *)
NewDoc(githubId, t) ==
  [NoDoc EXCEPT !.githubId = githubId, !.lastSyncedAt = t]

(* a snapshot that always asks for a refresh *)
needsSync_Always(doc, t) == TRUE

(* single flight: a snapshot another request is refreshing needs no sync *)
needsSync_SingleFlight(doc, t) ==
  /\ doc.lastSyncedAt = NullTime \/ (t - doc.lastSyncedAt) > SyncWindowHours
  /\ \A q \in DOMAIN task :
       ~ /\ task[q].pc \in {"sync_fetch", "sync_save", "sync_save_err"}
         /\ task[q].doc._id = doc._id

needsSync(doc, t) ==
  IF doc.lastSyncedAt = NullTime THEN TRUE
  ELSE (t - doc.lastSyncedAt) > SyncWindowHours

(* an update that also takes the id of the fetched data *)
updateFromGitHub_Rekey(doc, githubData, t) ==
  [doc EXCEPT !.githubId = githubData.id,
              !.ownerLogin = githubData.owner.login,
              !.name = githubData.name,
              !.fullName = githubData.full_name,
              !.description = githubData.description,
              !.stars = githubData.stargazers_count,
              !.forks = githubData.forks_count,
              !.watchers = githubData.watchers_count,
              !.openIssues = githubData.open_issues_count,
              !.lastSyncedAt = t,
              !.syncError = NullStr]

(* an update that adds the fetched stars to the stored ones *)
updateFromGitHub_Adding(doc, githubData, t) ==
  [doc EXCEPT !.ownerLogin = githubData.owner.login,
              !.name = githubData.name,
              !.fullName = githubData.full_name,
              !.description = githubData.description,
              !.stars = doc.stars + githubData.stargazers_count,
              !.forks = githubData.forks_count,
              !.watchers = githubData.watchers_count,
              !.openIssues = githubData.open_issues_count,
              !.lastSyncedAt = t,
              !.syncError = NullStr]

updateFromGitHub(doc, githubData, t) ==
  [doc EXCEPT !.ownerLogin = githubData.owner.login,
              !.name = githubData.name,
              !.fullName = githubData.full_name,
              !.description = githubData.description,
              !.stars = githubData.stargazers_count,
              !.forks = githubData.forks_count,
              !.watchers = githubData.watchers_count,
              !.openIssues = githubData.open_issues_count,
              !.lastSyncedAt = t,
              !.syncError = NullStr]

(* ------------------------------- store -------------------------------- *)
(* The collection is a sequence of documents; a document's _id is its     *)
(* position.                                                              *)
DocIds == 1..Len(store)

ByGithubId(githubId) == {i \in DocIds : store[i].githubId = githubId}
ByFullName(fullName) == {i \in DocIds : store[i].fullName = fullName}

(* schema validation run by save(): readme maxlength *)
Valid(doc) == doc.readme <= ReadmeMaxLength

(* a collection without the unique index *)
UniqueOk_NoIndex(doc) == TRUE

(* unique index on githubId *)
UniqueOk(doc) == ByGithubId(doc.githubId) = {}

Modified(orig, doc) == {f \in DOMAIN doc : doc[f] # orig[f]}

(* save() of a loaded document writes the paths whose value differs from  *)
(* the loaded one ($set of the modified paths) into the stored document.  *)
Merge(stored, orig, doc) ==
  [f \in DOMAIN stored |-> IF f \in Modified(orig, doc) THEN doc[f] ELSE stored[f]]

Inserted(doc) == [doc EXCEPT !._id = Len(store) + 1]
Inserted0(doc) == [doc EXCEPT !._id = 1]

(* ------------------------------- tasks -------------------------------- *)
(* what the caller of an operation receives: a snapshot, a README (its    *)
(* length), a language list, an array of snapshots, or a thrown error     *)
NoRet == [kind |-> "none", doc |-> NoDoc, readme |-> NullReadme,
          languages |-> <<>>, docs |-> <<>>, err |-> NoErr]
Return(doc) == [NoRet EXCEPT !.kind = "return", !.doc = doc]
ReturnReadme(readme) == [NoRet EXCEPT !.kind = "return", !.readme = readme]
ReturnLanguages(languages) == [NoRet EXCEPT !.kind = "return", !.languages = languages]
ReturnDocs(docs) == [NoRet EXCEPT !.kind = "return", !.docs = docs]
Throw(err) == [NoRet EXCEPT !.kind = "throw", !.err = err]

(* a task: one call of an operation, with its local variables.  cached is *)
(* the snapshot the operation read first, orig the values the in-memory   *)
(* document doc was loaded with, gh the fetched core data.  The history   *)
(* of the call is kept beside them: calls are the remote requests issued  *)
(* so far, refreshedAt the time updateFromGitHub ran, changed the stored   *)
(* fields its saves changed, first the snapshot the caller received from  *)
(* the same call made just before.  A bulk call has the list of its       *)
(* targets and the Promise.allSettled results, one per target; response  *)
(* is the rejected request a direct client call ended with.               *)
Idle ==
  [pc |-> "idle", op |-> "none", argId |-> 0, argName |-> "none",
   force |-> FALSE, cached |-> NoDoc, orig |-> NoDoc, doc |-> NoDoc,
   isNew |-> FALSE, gh |-> NoData, err |-> NoErr, calls |-> <<>>,
   refreshedAt |-> NullTime, changed |-> {},
   first |-> NoDoc, targets |-> <<>>, results |-> <<>>, response |-> NoResponse,
   ret |-> NoRet]

(* a remote request and the status of its response (0: no response) *)
Call(api, target, status) == [api |-> api, target |-> target, status |-> status]

(* a snapshot created by an earlier request at time 0 *)
Seed ==
  Inserted0(updateFromGitHub(NewDoc(1, 0),
              GithubData(1, "a/x", CHOOSE p \in Payloads : p.stargazers_count = 10), 0))

Init ==
  /\ store \in {<<>>, <<Seed>>}
  /\ now = 0
  /\ ticks = 0
  /\ started = 0
  /\ task = [p \in Procs |-> Idle]

(* A finished task hands its result to the caller before anything else    *)
(* happens: the result is local to the task, so no behaviour of the store *)
(* is lost.                                                               *)
NoneDone == \A q \in DOMAIN task : task[q].pc # "done"

(* A pending remote call touches nothing another task can see, so it is   *)
(* completed before the other tasks take their next store step; the clock *)
(* may advance while it is pending.  Every order of the store reads and   *)
(* writes of concurrent tasks is kept.                                    *)
RemoteLabels == {"goc_fetch", "sync_fetch", "ctl_fetch", "gbi_fetch", "sr_fetch",
                 "sr_readme", "sr_langs", "lr_fetch", "ll_fetch", "gr_fetch",
                 "cfn_fetch", "crm_fetch"}

NoRemotePending(p) == \A q \in DOMAIN task \ {p} : task[q].pc \notin RemoteLabels

(* task p is at the store access named label *)
At(p, label) == NoneDone /\ task[p].pc = label /\ NoRemotePending(p)

(* task p is at the remote call named label *)
AtRemote(p, label) == NoneDone /\ task[p].pc = label

(* tasks are interchangeable: a new request takes the lowest free slot *)
CanStart(p) ==
  /\ NoneDone
  /\ task[p].pc = "idle"
  /\ \A q \in DOMAIN task : q < p => task[q].pc # "idle"
  /\ started < MaxOps
  /\ NoRemotePending(p)

Begin(p, op) == [Idle EXCEPT !.op = op]

Set(p, t) ==
  /\ task' = [task EXCEPT ![p] = t]

(* the stored document after task t saved its loaded document *)
Saved(t) == Merge(store[t.doc._id], t.orig, t.doc)

(* task t after that save succeeded: nothing is modified any more *)
Persisted(t) ==
  [t EXCEPT !.orig = t.doc,
            !.changed = @ \cup Modified(store[t.doc._id], Saved(t))]

(* task t after the insert of its new document succeeded *)
Created(t) ==
  [t EXCEPT !.doc = Inserted(t.doc), !.orig = Inserted(t.doc), !.isNew = FALSE,
            !.changed = DOMAIN NoDoc]

(* the clock advances *)
Tick ==
  /\ NoneDone
  /\ ticks < MaxTicks
  /\ \E d \in TickSteps : now' = now + d
  /\ ticks' = ticks + 1
  /\ UNCHANGED <<store, started, task>>

(* the caller has received the result; the task is over *)
Finish(p) ==
  /\ task[p].pc = "done"
  /\ Set(p, Idle)
  /\ UNCHANGED <<store, now, ticks, started>>

(* ---------------- RepoSnapshot.findOrCreateFromGitHub ----------------- *)
(* let repo = await this.findOne({ githubId }); updateFromGitHub          *)
FocFind(p) ==
  /\ At(p, "foc_find")
  /\ LET t == task[p]
         found == ByGithubId(t.gh.id)
     IN IF found # {}
        THEN \E i \in found :
               Set(p, [t EXCEPT !.pc = "foc_save", !.orig = store[i],
                                !.doc = updateFromGitHub(store[i], t.gh, now),
                                !.isNew = FALSE, !.refreshedAt = now])
        ELSE Set(p, [t EXCEPT !.pc = "foc_save", !.orig = NoDoc,
                              !.doc = updateFromGitHub(NewDoc(t.gh.id, now), t.gh, now),
                              !.isNew = TRUE, !.refreshedAt = now])
  /\ UNCHANGED <<store, now, ticks, started>>

DuplicateKey == ApiError(0, "E11000 duplicate key error")
ValidationError == ApiError(0, "RepoSnapshot validation failed")

(* the catch block rethrows also when a snapshot is cached *)
GbiCatch_Rethrow(t, error) ==
  [t EXCEPT !.pc = "done", !.err = error, !.ret = Throw(error)]

(* catch block of GitHubService.getRepositoryById: with a cached snapshot *)
(* the error is dropped and the snapshot read at the start is returned    *)
GbiCatch(t, error) ==
  IF t.cached # NoDoc
  THEN [t EXCEPT !.pc = "done", !.err = error, !.ret = Return(t.cached)]
  ELSE [t EXCEPT !.pc = "done", !.err = error, !.ret = Throw(error)]

(* catch block of GitHubService.syncRepository, called by getRepositoryById *)
(* and by bulkSyncRepositories, where the error rejects the promise       *)
SrCatch(t, error) ==
  LET thrown == IF error.statusCode = 404
                THEN notFound(IF t.argName = "a/x"
                              THEN "Repository a/x not found on GitHub"
                              ELSE "Repository b/y not found on GitHub")
                ELSE error
  IN IF t.op = "syncRepository"
     THEN [t EXCEPT !.pc = "done", !.err = thrown, !.ret = Throw(thrown)]
     ELSE GbiCatch(t, thrown)

(* where a task continues after findOrCreateFromGitHub returned: the      *)
(* callers return the snapshot, syncRepository goes on to the README and  *)
(* the languages, getRepoDetails keeps the snapshot as its `repo` and     *)
(* goes on to its loaders                                                 *)
AfterFoc(t) ==
  IF t.op \in {"getRepositoryById", "syncRepository"}
  THEN [t EXCEPT !.pc = IF NoReadme(t.doc.readme) \/ t.doc.readmeFetchedAt = NullTime
                        THEN "sr_readme"
                        ELSE IF Len(t.doc.languages) = 0 THEN "sr_langs"
                        ELSE "sr_save"]
  ELSE IF t.op = "getRepoDetails"
  THEN [t EXCEPT !.pc = "grd_readme", !.first = t.doc]
  ELSE [t EXCEPT !.pc = "done", !.ret = Return(t.doc)]

(* where a task continues after findOrCreateFromGitHub threw *)
FocFailed(t, error) ==
  IF t.op \in {"getRepositoryById", "syncRepository"}
  THEN SrCatch(t, error)
  ELSE IF t.op = "ctlGetRepoByFullName"
  THEN [t EXCEPT !.pc = "done", !.err = error,
                 !.ret = Throw(internal("Failed to fetch repository"))]
  ELSE [t EXCEPT !.pc = "done", !.err = error, !.ret = Throw(error)]

(* await repo.save() of findOrCreateFromGitHub; the error propagates *)
FocSave(p) ==
  /\ At(p, "foc_save")
  /\ LET t == task[p]
     IN IF t.isNew
        THEN IF UniqueOk(t.doc)
             THEN /\ store' = Append(store, Inserted(t.doc))
                  /\ Set(p, AfterFoc(Created(t)))
             ELSE /\ Set(p, FocFailed(t, DuplicateKey))
                  /\ UNCHANGED store
        ELSE /\ store' = [store EXCEPT ![t.doc._id] = Saved(t)]
             /\ Set(p, AfterFoc(Persisted(t)))
  /\ UNCHANGED <<now, ticks, started>>

(* a direct call RepoSnapshot.findOrCreateFromGitHub(githubId, githubData) *)
FindOrCreateFromGitHub(p) ==
  /\ CanStart(p)
  /\ \E id \in GithubIds, fullName \in FullNames, pl \in Payloads :
       Set(p, [Begin(p, "findOrCreateFromGitHub") EXCEPT
                 !.pc = "foc_find", !.argId = id,
                 !.gh = GithubData(id, fullName, pl)])
  /\ started' = started + 1
  /\ UNCHANGED <<store, now, ticks>>

(* the caller that received a snapshot calls findOrCreateFromGitHub again *)
(* with the same githubId and the same githubData                         *)
FocAgain(p) ==
  /\ task[p].pc = "done"
  /\ task[p].op = "findOrCreateFromGitHub"
  /\ task[p].ret.kind = "return"
  /\ task[p].first = NoDoc
  /\ started < MaxOps
  /\ Set(p, [Begin(p, "findOrCreateFromGitHub") EXCEPT
                !.pc = "foc_find", !.argId = task[p].argId,
                !.gh = task[p].gh, !.first = task[p].ret.doc])
  /\ started' = started + 1
  /\ UNCHANGED <<store, now, ticks>>

(* ----------------- RepoService.getOrCreateFromGitHub ------------------ *)
GetOrCreateFromGitHub(p) ==
  /\ CanStart(p)
  /\ \E fullName \in FullNames :
       LET t == [Begin(p, "getOrCreateFromGitHub") EXCEPT !.argName = fullName]
           found == ByFullName(fullName)
       IN IF found # {}
          THEN \E i \in found :
                 IF ~needsSync(store[i], now)
                 THEN Set(p, [t EXCEPT !.pc = "done", !.ret = Return(store[i]),
                                       !.cached = store[i]])
                 ELSE Set(p, [t EXCEPT !.pc = "goc_fetch", !.cached = store[i]])
          ELSE Set(p, [t EXCEPT !.pc = "goc_fetch"])
  /\ started' = started + 1
  /\ UNCHANGED <<store, now, ticks>>

(* const githubData = await GitHubService.getRepositoryByFullName(fullName) *)
GocFetch(p) ==
  /\ AtRemote(p, "goc_fetch")
  /\ LET t == task[p]
         called(s) == [t EXCEPT !.calls = Append(@, Call("repo", t.argName, s))]
     IN \/ \E id \in GithubIds, pl \in Payloads :
             Set(p, [called(200) EXCEPT !.pc = "foc_find",
                                        !.gh = GithubData(id, t.argName, pl)])
        \/ \E s \in FailStatuses :
             Set(p, [called(s) EXCEPT !.pc = "done", !.err = Interceptor(s),
                                      !.ret = Throw(Interceptor(s))])
  /\ UNCHANGED <<store, now, ticks, started>>

(* ------------------------ RepoService.syncRepo ------------------------ *)
(* a catch block that also resets the time of the last synchronisation *)
RecordFailure_Stamp(doc, error) ==
  [doc EXCEPT !.syncError = error.message, !.lastSyncedAt = NullTime]

(* repo.syncError = error.message  in the catch blocks of syncRepo *)
RecordFailure(doc, error) ==
  [doc EXCEPT !.syncError = error.message]

(* where a task continues after RepoService.syncRepo(repo) returned *)
AfterSync(t) ==
  [t EXCEPT !.pc = "done", !.ret = Return(t.doc)]

(* syncRepo's error escapes every caller: getRepoById without its try/catch *)
AfterSyncFailed_Uncaught(t, err) ==
  [t EXCEPT !.pc = "done", !.ret = Throw(err)]

(* where a task continues after RepoService.syncRepo(repo) threw err:     *)
(* getRepoById catches and continues with the stale data,                 *)
(* getRepoByGitHubId lets the error through                               *)
AfterSyncFailed(t, err) ==
  IF t.op = "getRepoById"
  THEN [t EXCEPT !.pc = "done", !.ret = Return(t.doc)]
  ELSE [t EXCEPT !.pc = "done", !.ret = Throw(err)]

(* const githubData = await GitHubService.getRepositoryByFullName(repo.fullName); *)
(* repo.updateFromGitHub(githubData)   |   catch: repo.syncError = error.message  *)
SyncFetch(p) ==
  /\ AtRemote(p, "sync_fetch")
  /\ LET t == task[p]
         called(s) == [t EXCEPT !.calls = Append(@, Call("repo", t.doc.fullName, s))]
     IN \/ \E id \in GithubIds, pl \in Payloads :
             LET gh == GithubData(id, t.doc.fullName, pl)
             IN Set(p, [called(200) EXCEPT !.pc = "sync_save", !.gh = gh,
                                           !.refreshedAt = now,
                                           !.doc = updateFromGitHub(t.doc, gh, now)])
        \/ \E s \in FailStatuses :
             Set(p, [called(s) EXCEPT !.pc = "sync_save_err", !.err = Interceptor(s),
                                      !.doc = RecordFailure(t.doc, Interceptor(s))])
  /\ UNCHANGED <<store, now, ticks, started>>

(* await repo.save() in the try block *)
SyncSave(p) ==
  /\ At(p, "sync_save")
  /\ LET t == task[p]
     IN IF Valid(t.doc)
        THEN /\ store' = [store EXCEPT ![t.doc._id] = Saved(t)]
             /\ Set(p, AfterSync(Persisted(t)))
        ELSE /\ Set(p, [t EXCEPT !.pc = "sync_save_err", !.err = ValidationError,
                                 !.doc = RecordFailure(t.doc, ValidationError)])
             /\ UNCHANGED store
  /\ UNCHANGED <<now, ticks, started>>

(* await repo.save(); throw error  in the catch block *)
SyncSaveErr(p) ==
  /\ At(p, "sync_save_err")
  /\ LET t == task[p]
     IN IF Valid(t.doc)
        THEN /\ store' = [store EXCEPT ![t.doc._id] = Saved(t)]
             /\ Set(p, AfterSyncFailed(Persisted(t), t.err))
        ELSE /\ Set(p, AfterSyncFailed(t, ValidationError))
             /\ UNCHANGED store
  /\ UNCHANGED <<now, ticks, started>>

(* ----------------------- RepoService.getRepoById ---------------------- *)
GetRepoById(p) ==
  /\ CanStart(p)
  /\ \E repoId \in RepoIds, forceSync \in BOOLEAN :
       LET t == [Begin(p, "getRepoById") EXCEPT !.argId = repoId, !.force = forceSync]
       IN IF repoId \notin DocIds
          THEN Set(p, [t EXCEPT !.pc = "done",
                                !.ret = Throw(notFound("Repository not found"))])
          ELSE LET repo == store[repoId]
                   u == [t EXCEPT !.cached = repo, !.orig = repo, !.doc = repo]
               IN IF forceSync \/ needsSync(repo, now)
                  THEN Set(p, [u EXCEPT !.pc = "sync_fetch"])
                  ELSE Set(p, [u EXCEPT !.pc = "done", !.ret = Return(repo)])
  /\ started' = started + 1
  /\ UNCHANGED <<store, now, ticks>>

(* -------------------- RepoService.getRepoByGitHubId ------------------- *)
GetRepoByGitHubId(p) ==
  /\ CanStart(p)
  /\ \E githubId \in GithubIds :
       LET t == [Begin(p, "getRepoByGitHubId") EXCEPT !.argId = githubId]
           found == ByGithubId(githubId)
       IN IF found = {}
          THEN Set(p, [t EXCEPT !.pc = "done",
                 !.ret = Throw(notFound("Repository not found. Use fullName to fetch from GitHub."))])
          ELSE \E i \in found :
                 LET repo == store[i]
                     u == [t EXCEPT !.cached = repo, !.orig = repo, !.doc = repo]
                 IN IF ~needsSync(repo, now)
                    THEN Set(p, [u EXCEPT !.pc = "done", !.ret = Return(repo)])
                    ELSE Set(p, [u EXCEPT !.pc = "sync_fetch"])
  /\ started' = started + 1
  /\ UNCHANGED <<store, now, ticks>>

(* ---------------------- GitHubController.syncRepo --------------------- *)
(* the error axios raises on the controller's githubApi instance, which   *)
(* has no interceptor: a plain Error without statusCode                   *)
AxiosError(status) ==
  ApiError(0, CASE status = 0 -> "Network Error"
                [] status = 404 -> "Request failed with status code 404"
                [] status = 403 -> "Request failed with status code 403"
                [] status = 401 -> "Request failed with status code 401"
                [] OTHER -> "Request failed with status code 500")

CtlSyncRepo(p) ==
  /\ CanStart(p)
  /\ \E id \in RepoIds :
       LET t == [Begin(p, "ctlSyncRepo") EXCEPT !.argId = id]
       IN IF id \notin DocIds
          THEN Set(p, [t EXCEPT !.pc = "done",
                                !.ret = Throw(notFound("Repository not found"))])
          ELSE Set(p, [t EXCEPT !.pc = "ctl_fetch", !.cached = store[id],
                                !.orig = store[id], !.doc = store[id]])
  /\ started' = started + 1
  /\ UNCHANGED <<store, now, ticks>>

(* const response = await githubApi.get(`/repos/${repo.fullName}`);       *)
(* repo.updateFromGitHub(response.data) | catch: repo.syncError = error.message *)
CtlSyncFetch(p) ==
  /\ AtRemote(p, "ctl_fetch")
  /\ LET t == task[p]
         called(s) == [t EXCEPT !.calls = Append(@, Call("repo", t.doc.fullName, s))]
     IN \/ \E id \in GithubIds, pl \in Payloads :
             LET gh == GithubData(id, t.doc.fullName, pl)
             IN Set(p, [called(200) EXCEPT !.pc = "ctl_save", !.gh = gh,
                                           !.refreshedAt = now,
                                           !.doc = updateFromGitHub(t.doc, gh, now)])
        \/ \E s \in FailStatuses :
             Set(p, [called(s) EXCEPT !.pc = "ctl_save_err", !.err = AxiosError(s),
                                      !.doc = RecordFailure(t.doc, AxiosError(s))])
  /\ UNCHANGED <<store, now, ticks, started>>

(* await repo.save(); return ApiResponse.success(res, "Repository synced", repo) *)
CtlSyncSave(p) ==
  /\ At(p, "ctl_save")
  /\ LET t == task[p]
     IN IF Valid(t.doc)
        THEN /\ store' = [store EXCEPT ![t.doc._id] = Saved(t)]
             /\ Set(p, [Persisted(t) EXCEPT !.pc = "done", !.ret = Return(t.doc)])
        ELSE /\ Set(p, [t EXCEPT !.pc = "ctl_save_err", !.err = ValidationError,
                                 !.doc = RecordFailure(t.doc, ValidationError)])
             /\ UNCHANGED store
  /\ UNCHANGED <<now, ticks, started>>

(* await repo.save(); throw ApiError.internal("Failed to sync repository") *)
CtlSyncSaveErr(p) ==
  /\ At(p, "ctl_save_err")
  /\ LET t == task[p]
     IN IF Valid(t.doc)
        THEN /\ store' = [store EXCEPT ![t.doc._id] = Saved(t)]
             /\ Set(p, [Persisted(t) EXCEPT !.pc = "done", !.ret = Throw(internal("Failed to sync repository"))])
        ELSE /\ Set(p, [t EXCEPT !.pc = "done", !.ret = Throw(ValidationError)])
             /\ UNCHANGED store
  /\ UNCHANGED <<now, ticks, started>>

(* ------------------ GitHubController.getRepoByFullName --------------- *)
(* repoData.needsSync?.() of a document read with lean(): a plain object  *)
(* has no methods, the optional call yields undefined                     *)
needsSyncOfLean(repoData, t) == FALSE

(* let repoData = await RepoSnapshot.findOne({ fullName }).lean();        *)
(* if (repoData && !repoData.needsSync?.()) return repoData               *)
CtlGetRepoByFullName(p) ==
  /\ CanStart(p)
  /\ \E fullName \in FullNames :
       LET t == [Begin(p, "ctlGetRepoByFullName") EXCEPT !.argName = fullName]
           found == ByFullName(fullName)
       IN IF found # {}
          THEN \E i \in found :
                 IF ~needsSyncOfLean(store[i], now)
                 THEN Set(p, [t EXCEPT !.pc = "done", !.cached = store[i],
                                       !.ret = Return(store[i])])
                 ELSE Set(p, [t EXCEPT !.pc = "cfn_fetch", !.cached = store[i]])
          ELSE Set(p, [t EXCEPT !.pc = "cfn_fetch"])
  /\ started' = started + 1
  /\ UNCHANGED <<store, now, ticks>>

(* const response = await githubApi.get(`/repos/${owner}/${repo}`);       *)
(* catch: 404 becomes not-found, anything else an internal error          *)
CfnFetch(p) ==
  /\ AtRemote(p, "cfn_fetch")
  /\ LET t == task[p]
         called(s) == [t EXCEPT !.calls = Append(@, Call("repo", t.argName, s))]
     IN \/ \E id \in GithubIds, pl \in Payloads :
             Set(p, [called(200) EXCEPT !.pc = "foc_find",
                                        !.gh = GithubData(id, t.argName, pl)])
        \/ \E s \in FailStatuses :
             Set(p, [called(s) EXCEPT
                       !.pc = "done", !.err = AxiosError(s),
                       !.ret = Throw(IF s = 404
                                     THEN notFound("Repository not found on GitHub")
                                     ELSE internal("Failed to fetch repository"))])
  /\ UNCHANGED <<store, now, ticks, started>>

(* -------------------- GitHubController.getRepoReadme ------------------ *)
CacheWindowHours == 24

(* the handler looks the snapshot up by _id, else by githubId; a cached   *)
(* README younger than 24 hours is returned without a request             *)
CtlGetRepoReadme(p) ==
  /\ CanStart(p)
  /\ \E by \in {"_id", "githubId"}, id \in RepoIds :
       LET t == [Begin(p, "ctlGetRepoReadme") EXCEPT !.argId = id]
           found == IF by = "_id" THEN DocIds \cap {id} ELSE ByGithubId(id)
       IN IF found = {}
          THEN Set(p, [t EXCEPT !.pc = "done",
                         !.ret = Throw(notFound("Repository not found in cache"))])
          ELSE \E i \in found :
                 LET repo == store[i]
                     u == [t EXCEPT !.cached = repo, !.orig = repo, !.doc = repo]
                 IN IF /\ ~NoReadme(repo.readme)
                       /\ repo.readmeFetchedAt # NullTime
                       /\ now - repo.readmeFetchedAt < CacheWindowHours
                    THEN Set(p, [u EXCEPT !.pc = "done",
                                          !.ret = ReturnReadme(repo.readme)])
                    ELSE Set(p, [u EXCEPT !.pc = "crm_fetch"])
  /\ started' = started + 1
  /\ UNCHANGED <<store, now, ticks>>

(* https.request with request.setTimeout(10000): 200 resolves with the    *)
(* body, 404 with null, anything else rejects; the catch block answers    *)
(* with readme: null.  repo.readme = readmeContent;                       *)
(* repo.readmeFetchedAt = new Date()                                      *)
CrmFetch(p) ==
  /\ AtRemote(p, "crm_fetch")
  /\ LET t == task[p]
         called(s) == [t EXCEPT !.calls = Append(@, Call("readme", t.doc.fullName, s))]
         cache(u, readmeContent) ==
           [u EXCEPT !.pc = "crm_save", !.doc.readme = readmeContent,
                     !.doc.readmeFetchedAt = now]
     IN \/ \E len \in {0} \cup ReadmeLens : Set(p, cache(called(200), len))
        \/ Set(p, cache(called(404), NullReadme))
        \/ \E s \in FailStatuses \ {404} :
             Set(p, [called(s) EXCEPT !.pc = "done", !.err = AxiosError(s),
                                      !.ret = ReturnReadme(NullReadme)])
  /\ UNCHANGED <<store, now, ticks, started>>

(* await repo.save(); return { readme: readmeContent }; a save that fails *)
(* is caught like a failed request                                        *)
CrmSave(p) ==
  /\ At(p, "crm_save")
  /\ LET t == task[p]
     IN IF Valid(t.doc)
        THEN /\ store' = [store EXCEPT ![t.doc._id] = Saved(t)]
             /\ Set(p, [Persisted(t) EXCEPT !.pc = "done",
                                            !.ret = ReturnReadme(t.doc.readme)])
        ELSE /\ Set(p, [t EXCEPT !.pc = "done", !.err = ValidationError,
                                 !.ret = ReturnReadme(NullReadme)])
             /\ UNCHANGED store
  /\ UNCHANGED <<now, ticks, started>>

(* ------------------- GitHubService.getRepositoryById ------------------ *)
NaN == -1
RepoIdParams == {"1", "2", "abc"}
parseInt(s) == IF s = "1" THEN 1 ELSE IF s = "2" THEN 2 ELSE NaN

(* the inline check with the window of needsSync *)
Fresh_Day(snapshot, t) ==
  snapshot.lastSyncedAt # NullTime /\ (t - snapshot.lastSyncedAt) <= SyncWindowHours

Fresh(snapshot, t) ==
  snapshot.lastSyncedAt # NullTime /\ (t - snapshot.lastSyncedAt) < FreshWindowHours

GetRepositoryById(p) ==
  /\ CanStart(p)
  /\ \E repoId \in RepoIdParams :
       LET githubId == parseInt(repoId)
           t == [Begin(p, "getRepositoryById") EXCEPT !.argId = githubId]
           found == ByGithubId(githubId)
       IN IF githubId = NaN
          THEN Set(p, [t EXCEPT !.pc = "done",
                                !.ret = Throw(badRequest("Invalid repository ID"))])
          ELSE IF found # {}
          THEN \E i \in found :
                 IF Fresh(store[i], now)
                 THEN Set(p, [t EXCEPT !.pc = "done", !.cached = store[i],
                                       !.ret = Return(store[i])])
                 ELSE Set(p, [t EXCEPT !.pc = "gbi_fetch", !.cached = store[i]])
          ELSE Set(p, [t EXCEPT !.pc = "gbi_fetch"])
  /\ started' = started + 1
  /\ UNCHANGED <<store, now, ticks>>

(* const response = await this.client.get(`/repositories/${githubId}`) *)
GbiFetch(p) ==
  /\ AtRemote(p, "gbi_fetch")
  /\ LET t == task[p]
         called(s) == [t EXCEPT !.calls = Append(@, Call("repositories", "id", s))]
     IN \/ \E fullName \in FullNames :
             Set(p, [called(200) EXCEPT !.pc = "sr_fetch",
                        !.argName = JoinName(Owner(fullName), RepoName(fullName))])
        \/ \E s \in FailStatuses : Set(p, GbiCatch(called(s), Interceptor(s)))
  /\ UNCHANGED <<store, now, ticks, started>>

(* --------------------- GitHubService.getRepository -------------------- *)
GetRepository(p) ==
  /\ CanStart(p)
  /\ \E fullName \in FullNames :
       Set(p, [Begin(p, "getRepository") EXCEPT !.pc = "gr_fetch",
                                                !.argName = fullName])
  /\ started' = started + 1
  /\ UNCHANGED <<store, now, ticks>>

(* const response = await this.client.get(`/repos/${owner}/${repo}`);     *)
(* return response.data: a rejected request goes through the interceptor  *)
GrFetch(p) ==
  /\ AtRemote(p, "gr_fetch")
  /\ LET t == task[p]
         called(s) == [t EXCEPT !.pc = "done",
                                !.calls = Append(@, Call("repo", t.argName, s))]
     IN \/ \E id \in GithubIds, pl \in Payloads :
             Set(p, [called(200) EXCEPT !.gh = GithubData(id, t.argName, pl),
                                        !.ret = [NoRet EXCEPT !.kind = "return"]])
        \/ \E error \in Failures :
             Set(p, [called(error.status) EXCEPT
                       !.response = error, !.err = onRejected(error),
                       !.ret = Throw(onRejected(error))])
  /\ UNCHANGED <<store, now, ticks, started>>

(* -------------------- GitHubService.syncRepository -------------------- *)
(* const ghRepo = await this.getRepository(owner, repo) *)
SrFetch(p) ==
  /\ AtRemote(p, "sr_fetch")
  /\ LET t == task[p]
         called(s) == [t EXCEPT !.calls = Append(@, Call("repo", t.argName, s))]
     IN \/ \E id \in GithubIds, pl \in Payloads :
             Set(p, [called(200) EXCEPT !.pc = "foc_find",
                                        !.gh = GithubData(id, t.argName, pl)])
        \/ \E s \in FailStatuses : Set(p, SrCatch(called(s), Interceptor(s)))
  /\ UNCHANGED <<store, now, ticks, started>>

(* const readme = await this.getReadme(owner, repo); errors are dropped *)
SrReadme(p) ==
  /\ AtRemote(p, "sr_readme")
  /\ \E status \in {200} \cup FailStatuses, len \in {0} \cup ReadmeLens :
       LET t == [task[p] EXCEPT
                   !.calls = Append(@, Call("readme", task[p].argName, status)),
                   !.pc = IF Len(task[p].doc.languages) = 0
                          THEN "sr_langs" ELSE "sr_save"]
           r == getReadme(status, len)
       IN IF ~r.threw /\ ~NoReadme(r.readme)
          THEN Set(p, [t EXCEPT !.doc.readme = r.readme,
                                !.doc.readmeFetchedAt = now])
          ELSE Set(p, t)
  /\ UNCHANGED <<store, now, ticks, started>>

(* const languages = await this.getLanguages(owner, repo); errors are dropped *)
SrLangs(p) ==
  /\ AtRemote(p, "sr_langs")
  /\ LET t == [task[p] EXCEPT !.pc = "sr_save"]
         called(s) == [t EXCEPT !.calls = Append(@, Call("languages", t.argName, s))]
     IN \/ \E m \in LangMaps :
             Set(p, [called(200) EXCEPT !.doc.languages = SyncPercentages(m)])
        \/ \E s \in FailStatuses : Set(p, called(s))
  /\ UNCHANGED <<store, now, ticks, started>>

(* await savedRepo.save(); return savedRepo *)
SrSave(p) ==
  /\ At(p, "sr_save")
  /\ LET t == task[p]
     IN IF Valid(t.doc)
        THEN /\ store' = [store EXCEPT ![t.doc._id] = Saved(t)]
             /\ Set(p, [Persisted(t) EXCEPT !.pc = "done", !.ret = Return(t.doc)])
        ELSE /\ Set(p, SrCatch(t, ValidationError))
             /\ UNCHANGED store
  /\ UNCHANGED <<now, ticks, started>>

(* ----------------- GitHubService.bulkSyncRepositories ----------------- *)
(* Slot 0 is the bulkSyncRepositories call and slot i the syncRepository  *)
(* call of its i-th target; started counts the call and those it starts.  *)
BulkProcs == 0..MaxTargets

Targets == UNION {[1..n -> FullNames] : n \in 0..MaxTargets}

(* an entry of the array Promise.allSettled resolves with *)
Pending == [status |-> "pending", value |-> NoDoc, reason |-> NoErr]
Fulfilled(value) == [status |-> "fulfilled", value |-> value, reason |-> NoErr]
Rejected(reason) == [status |-> "rejected", value |-> NoDoc, reason |-> reason]

IsFulfilled(result) == result.status = "fulfilled"
IsRejected(result) == result.status = "rejected"

Values(results) == [i \in DOMAIN results |-> results[i].value]
Reasons(results) == [i \in DOMAIN results |-> results[i].reason]

(* results.filter(fulfilled).map(value), results.filter(rejected).map(reason) *)
successful(results) == Values(SelectSeq(results, IsFulfilled))
failed(results) == Reasons(SelectSeq(results, IsRejected))

(* repositories.map(({owner, repo}) => this.syncRepository(owner, repo)):  *)
(* every call runs up to its first await, the core request                *)
BulkSyncRepositories ==
  /\ \A q \in DOMAIN task : task[q].pc = "idle"
  /\ started < MaxOps
  /\ \E repositories \in Targets :
       /\ task' = [p \in DOMAIN task |->
                    IF p = 0
                    THEN [Begin(p, "bulkSyncRepositories") EXCEPT
                            !.pc = "bulk_wait", !.targets = repositories,
                            !.results = [i \in DOMAIN repositories |-> Pending]]
                    ELSE IF p \in DOMAIN repositories
                    THEN [Begin(p, "syncRepository") EXCEPT
                            !.pc = "sr_fetch", !.argName = repositories[p]]
                    ELSE Idle]
       /\ started' = started + 1 + Len(repositories)
  /\ UNCHANGED <<store, now, ticks>>

(* the promise of target p settles: allSettled records value or reason *)
BulkSettle(p) ==
  /\ p # 0
  /\ task[p].pc = "done"
  /\ task[p].op = "syncRepository"
  /\ task' = [task EXCEPT
               ![0].results[p] = IF task[p].ret.kind = "return"
                                 THEN Fulfilled(task[p].ret.doc)
                                 ELSE Rejected(task[p].ret.err),
               ![p].pc = "settled"]
  /\ UNCHANGED <<store, now, ticks, started>>

(* what the call returns, given the settled results *)
BulkResult_Rejecting(results) ==
  IF failed(results) # <<>>
  THEN Throw(failed(results)[1])
  ELSE ReturnDocs(successful(results))

BulkResult_Everything(results) == ReturnDocs(Values(results))

BulkResult(results) == ReturnDocs(successful(results))

(* await Promise.allSettled(...) resumes once no promise is pending;      *)
(* the failures are logged and the successes returned                     *)
BulkReturn ==
  /\ NoneDone
  /\ task[0].pc = "bulk_wait"
  /\ \A i \in DOMAIN task[0].results : task[0].results[i].status # "pending"
  /\ Set(0, [task[0] EXCEPT !.pc = "done", !.ret = BulkResult(task[0].results)])
  /\ UNCHANGED <<store, now, ticks, started>>

(* the caller has received the array; the call and its promises are over *)
BulkFinish ==
  /\ task[0].pc = "done"
  /\ task' = [p \in DOMAIN task |-> Idle]
  /\ UNCHANGED <<store, now, ticks, started>>

(* ------------------------ RepoService.loadReadme ---------------------- *)
Min(a, b) == IF a < b THEN a ELSE b

(* loadReadme returns the README: to its caller, or into getRepoDetails,  *)
(* which drops the value and goes on to the languages                     *)
AfterLoadReadme(t, readme) ==
  IF t.op = "getRepoDetails"
  THEN [t EXCEPT !.pc = "grd_langs"]
  ELSE [t EXCEPT !.pc = "done", !.ret = ReturnReadme(readme)]

(* loadLanguages returns the list: to its caller, or into getRepoDetails, *)
(* which drops the value and goes on to its return                        *)
AfterLoadLanguages(t, languages) ==
  IF t.op = "getRepoDetails"
  THEN [t EXCEPT !.pc = "grd_return"]
  ELSE [t EXCEPT !.pc = "done", !.ret = ReturnLanguages(languages)]

(* value || null of a README *)
OrNull(readme) == IF NoReadme(readme) THEN NullReadme ELSE readme

LoadReadme(p) ==
  /\ CanStart(p)
  /\ \E repoId \in RepoIds :
       LET t == [Begin(p, "loadReadme") EXCEPT !.argId = repoId]
       IN IF repoId \notin DocIds
          THEN Set(p, [t EXCEPT !.pc = "done",
                                !.ret = Throw(notFound("Repository not found"))])
          ELSE LET repo == store[repoId]
                   needsRefresh == \/ repo.readmeFetchedAt = NullTime
                                   \/ now - repo.readmeFetchedAt > ReadmeWindowHours
                   u == [t EXCEPT !.cached = repo, !.orig = repo, !.doc = repo]
               IN IF ~NoReadme(repo.readme) /\ ~needsRefresh
                  THEN Set(p, [u EXCEPT !.pc = "done", !.ret = ReturnReadme(repo.readme)])
                  ELSE Set(p, [u EXCEPT !.pc = "lr_fetch"])
  /\ started' = started + 1
  /\ UNCHANGED <<store, now, ticks>>

(* const readme = await GitHubService.getReadme(repo.ownerLogin, repo.name) *)
LrFetch(p) ==
  /\ AtRemote(p, "lr_fetch")
  /\ \E status \in {200} \cup FailStatuses, len \in {0} \cup ReadmeLens :
       LET t == [task[p] EXCEPT !.calls = Append(@,
                   Call("readme", JoinName(task[p].doc.ownerLogin, task[p].doc.name),
                        status))]
           r == getReadme(status, len)
       IN  IF r.threw
             THEN Set(p, AfterLoadReadme([t EXCEPT !.err = r.err],
                                         OrNull(t.doc.readme)))
             ELSE IF ~NoReadme(r.readme)
             THEN Set(p, [t EXCEPT !.pc = "lr_save",
                                   !.doc.readme = Min(r.readme, ReadmeMaxLength),
                                   !.doc.readmeFetchedAt = now])
             ELSE Set(p, AfterLoadReadme(t, t.doc.readme))
  /\ UNCHANGED <<store, now, ticks, started>>

(* await repo.save(); return repo.readme *)
LrSave(p) ==
  /\ At(p, "lr_save")
  /\ LET t == task[p]
     IN IF Valid(t.doc)
        THEN /\ store' = [store EXCEPT ![t.doc._id] = Saved(t)]
             /\ Set(p, AfterLoadReadme(Persisted(t), t.doc.readme))
        ELSE /\ Set(p, AfterLoadReadme([t EXCEPT !.err = ValidationError],
                                        OrNull(t.doc.readme)))
             /\ UNCHANGED store
  /\ UNCHANGED <<now, ticks, started>>

(* ---------------------- RepoService.loadLanguages --------------------- *)
(* percentage: Math.round((bytes / totalBytes) * 100 * 10) / 10, in tenths *)
LoadPercentages(m) ==
  [i \in 1..Len(m) |->
     [name |-> m[i].name, bytes |-> m[i].bytes,
      percentage |-> Round(m[i].bytes * 1000, SumBytes(m))]]

LoadLanguages(p) ==
  /\ CanStart(p)
  /\ \E repoId \in RepoIds :
       LET t == [Begin(p, "loadLanguages") EXCEPT !.argId = repoId]
       IN IF repoId \notin DocIds
          THEN Set(p, [t EXCEPT !.pc = "done",
                                !.ret = Throw(notFound("Repository not found"))])
          ELSE LET repo == store[repoId]
                   u == [t EXCEPT !.cached = repo, !.orig = repo, !.doc = repo]
               IN IF Len(repo.languages) > 0
                  THEN Set(p, [u EXCEPT !.pc = "done",
                                        !.ret = ReturnLanguages(repo.languages)])
                  ELSE Set(p, [u EXCEPT !.pc = "ll_fetch"])
  /\ started' = started + 1
  /\ UNCHANGED <<store, now, ticks>>

(* const languagesData = await GitHubService.getLanguages(repo.ownerLogin, repo.name) *)
LlFetch(p) ==
  /\ AtRemote(p, "ll_fetch")
  /\ LET t == task[p]
         called(s) == [t EXCEPT !.calls = Append(@,
                         Call("languages", JoinName(t.doc.ownerLogin, t.doc.name), s))]
     IN \/ \E m \in LangMaps :
             Set(p, [called(200) EXCEPT !.pc = "ll_save",
                                        !.doc.languages = LoadPercentages(m)])
        \/ \E s \in FailStatuses :
             Set(p, AfterLoadLanguages([called(s) EXCEPT !.err = Interceptor(s)],
                                       t.doc.languages))
  /\ UNCHANGED <<store, now, ticks, started>>

(* await repo.save(); return repo.languages *)
LlSave(p) ==
  /\ At(p, "ll_save")
  /\ LET t == task[p]
     IN IF Valid(t.doc)
        THEN /\ store' = [store EXCEPT ![t.doc._id] = Saved(t)]
             /\ Set(p, AfterLoadLanguages(Persisted(t), t.doc.languages))
        ELSE /\ Set(p, AfterLoadLanguages([t EXCEPT !.err = ValidationError],
                                           t.doc.languages))
             /\ UNCHANGED store
  /\ UNCHANGED <<now, ticks, started>>

(* ---------------------- RepoService.getRepoDetails -------------------- *)
(* const repo = await this.getOrCreateFromGitHub(fullName): the task's    *)
(* `first` is getRepoDetails' variable repo                               *)
GetRepoDetails(p) ==
  /\ CanStart(p)
  /\ \E fullName \in FullNames :
       LET t == [Begin(p, "getRepoDetails") EXCEPT !.argName = fullName]
           found == ByFullName(fullName)
       IN IF found # {}
          THEN \E i \in found :
                 IF ~needsSync(store[i], now)
                 THEN Set(p, [t EXCEPT !.pc = "grd_readme", !.first = store[i],
                                       !.cached = store[i]])
                 ELSE Set(p, [t EXCEPT !.pc = "goc_fetch", !.cached = store[i]])
          ELSE Set(p, [t EXCEPT !.pc = "goc_fetch"])
  /\ started' = started + 1
  /\ UNCHANGED <<store, now, ticks>>

(* if (!repo.readme) await this.loadReadme(repo._id): the loader reads    *)
(* its own document by id                                                 *)
GrdLoadReadme(p) ==
  /\ At(p, "grd_readme")
  /\ LET t == task[p]
         repo == store[t.first._id]
         needsRefresh == \/ repo.readmeFetchedAt = NullTime
                         \/ now - repo.readmeFetchedAt > ReadmeWindowHours
         u == [t EXCEPT !.cached = repo, !.orig = repo, !.doc = repo]
     IN IF ~NoReadme(t.first.readme)
        THEN Set(p, [t EXCEPT !.pc = "grd_langs"])
        ELSE IF ~NoReadme(repo.readme) /\ ~needsRefresh
        THEN Set(p, AfterLoadReadme(u, repo.readme))
        ELSE Set(p, [u EXCEPT !.pc = "lr_fetch"])
  /\ UNCHANGED <<store, now, ticks, started>>

(* if (!repo.languages || repo.languages.length === 0)                    *)
(*   await this.loadLanguages(repo._id)                                   *)
GrdLoadLanguages(p) ==
  /\ At(p, "grd_langs")
  /\ LET t == task[p]
         repo == store[t.first._id]
         u == [t EXCEPT !.cached = repo, !.orig = repo, !.doc = repo]
     IN IF Len(t.first.languages) > 0
        THEN Set(p, [t EXCEPT !.pc = "grd_return"])
        ELSE IF Len(repo.languages) > 0
        THEN Set(p, AfterLoadLanguages(u, repo.languages))
        ELSE Set(p, [u EXCEPT !.pc = "ll_fetch"])
  /\ UNCHANGED <<store, now, ticks, started>>

(* await repo.populate("reviews"); return { repo: repo.toObject(), ... }: *)
(* populate fills the reviews path and reads no other field again         *)
GrdReturn(p) ==
  /\ At(p, "grd_return")
  /\ Set(p, [task[p] EXCEPT !.pc = "done", !.ret = Return(task[p].first)])
  /\ UNCHANGED <<store, now, ticks, started>>

(* ------------------------------- claims ------------------------------- *)
Done(p, op) == task[p].pc = "done" /\ task[p].op = op

(* a remote request of task t for the core fields failed *)
CoreFetchFailed(t) ==
  \E i \in 1..Len(t.calls) :
    t.calls[i].api \in {"repo", "repositories"} /\ t.calls[i].status # 200

C2_LookupFallsBack ==
  \A p \in Procs :
    LET t == task[p]
    IN Done(p, "getRepositoryById") /\ t.cached # NoDoc /\ t.err # NoErr
       => /\ t.ret = Return(t.cached)
          /\ t.cached.lastSyncedAt # NullTime
          /\ now - t.cached.lastSyncedAt >= FreshWindowHours

(* the refresh failed at the last save, after the by-id and by-name fetches *)
C2_Witness ==
  \E p \in Procs :
    LET t == task[p]
    IN /\ Done(p, "getRepositoryById") /\ t.cached # NoDoc
       /\ t.err = ValidationError /\ t.gh # NoData
       /\ t.ret = Return(t.cached)

(* C3: GitHubService.getRepositoryById(id): when the refresh of a cached  *)
(* stale snapshot fails, the stored snapshot's syncError is the message   *)
(* of the failure after the call.                                         *)
C3_FailureRecorded ==
  \A p \in Procs :
    LET t == task[p]
    IN Done(p, "getRepositoryById") /\ t.cached # NoDoc /\ t.err # NoErr
       => store[t.cached._id].syncError = t.err.message

(* C4: RepoService.getOrCreateFromGitHub(fullName) and                    *)
(* RepoService.getRepoByGitHubId(githubId) on a stored snapshot that      *)
(* needs a core refresh: when the remote fetch fails the caller receives  *)
(* the stored snapshot, not an error.                                     *)
C4_FailureSuppressed ==
  \A p \in Procs :
    LET t == task[p]
    IN /\ Done(p, "getOrCreateFromGitHub") \/ Done(p, "getRepoByGitHubId")
       /\ t.cached # NoDoc
       /\ CoreFetchFailed(t)
       => /\ t.ret.kind = "return"
          /\ t.ret.doc._id = t.cached._id

(* the status of the last response task t received *)
LastStatus(t) == t.calls[Len(t.calls)].status

(* C5: GitHubService.getRepositoryById(id) with no snapshot cached for id *)
(* throws a not-found error (status 404) when the remote answers 404 (to  *)
(* the fetch by id or to the fetch by name), throws any other remote      *)
(* failure as it is, and in both cases has written nothing to the store.  *)
C5_ColdMissPropagates ==
  \A p \in Procs :
    LET t == task[p]
    IN Done(p, "getRepositoryById") /\ t.cached = NoDoc /\ CoreFetchFailed(t)
       => /\ t.ret.kind = "throw"
          /\ LastStatus(t) = 404 => t.ret.err.statusCode = 404
          /\ LastStatus(t) = 0 =>
                t.ret.err = ApiError(500, "Failed to connect to GitHub API")
          /\ LastStatus(t) = 500 => t.ret.err = ApiError(400, RemoteMessage)
          /\ t.changed = {}
          /\ t.doc = NoDoc
          /\ started = 1 => ByGithubId(t.argId) = {}

C5_Witness ==
  \E p \in Procs :
    LET t == task[p]
    IN /\ Done(p, "getRepositoryById") /\ t.cached = NoDoc /\ CoreFetchFailed(t)
       /\ LastStatus(t) = 404
       /\ t.ret = Throw(notFound("GitHub resource not found"))
       /\ ByGithubId(t.argId) = {}

(* C6: in every reachable state the store holds at most one snapshot per  *)
(* githubId, also when findOrCreateFromGitHub calls for the same githubId *)
(* interleave between their find and their save.                          *)
C6_OnePerGithubId ==
  \A id \in GithubIds : Cardinality(ByGithubId(id)) <= 1

(* two calls found no snapshot for the id; the insert of the second was   *)
(* refused by the unique index                                            *)
C6_Witness ==
  \E p \in Procs :
    LET t == task[p]
    IN /\ Done(p, "getOrCreateFromGitHub") /\ t.isNew
       /\ t.ret = Throw(DuplicateKey)
       /\ Cardinality(ByGithubId(t.gh.id)) = 1

C8_RefreshStored ==
  \A p \in Procs :
    LET t == task[p]
        s == store[t.doc._id]
    IN /\ t.pc = "done"
       /\ t.op \in {"getRepoById", "getRepoByGitHubId", "getOrCreateFromGitHub"}
       /\ t.gh # NoData /\ t.ret.kind = "return"
       => /\ s.syncError = NullStr
          /\ s.lastSyncedAt = t.refreshedAt
          /\ s.stars = t.gh.stargazers_count
          /\ s.forks = t.gh.forks_count
          /\ s.watchers = t.gh.watchers_count
          /\ s.openIssues = t.gh.open_issues_count

(* task t looked up a stored snapshot that its operation takes as fresh:  *)
(* synchronised at most 24 hours ago for the RepoService lookups, less    *)
(* than 1 hour ago for GitHubService.getRepositoryById                    *)
FreshLookup(t) ==
  /\ t.pc = "done"
  /\ t.cached # NoDoc
  /\ t.cached.lastSyncedAt # NullTime
  /\ \/ /\ t.op = "getRepoById" /\ ~t.force
        /\ now - t.cached.lastSyncedAt <= SyncWindowHours
     \/ /\ t.op = "getOrCreateFromGitHub"
        /\ now - t.cached.lastSyncedAt <= SyncWindowHours
     \/ /\ t.op = "getRepositoryById"
        /\ now - t.cached.lastSyncedAt < FreshWindowHours

(* C9: a lookup (RepoService.getRepoById without forceSync,               *)
(* RepoService.getOrCreateFromGitHub, GitHubService.getRepositoryById)    *)
(* of a stored snapshot that is fresh issues no remote request, writes    *)
(* nothing and returns the stored snapshot as it is.                      *)
C9_FreshNoRemote ==
  \A p \in Procs :
    LET t == task[p]
    IN FreshLookup(t)
       => /\ t.calls = <<>>
          /\ t.changed = {}
          /\ t.ret = Return(t.cached)
          /\ store[t.cached._id] = t.cached

(* the second getOrCreateFromGitHub, exactly 24 hours after the first one *)
(* created the snapshot, returns it without a remote request              *)
C9_Witness ==
  \E p \in Procs :
    LET t == task[p]
    IN /\ FreshLookup(t) /\ t.op = "getOrCreateFromGitHub"
       /\ started = 2 /\ Len(store) = 1
       /\ t.cached.lastSyncedAt = 0 /\ now = SyncWindowHours
       /\ t.cached.fullName = "b/y"
       /\ t.calls = <<>> /\ t.ret = Return(store[1])

(* C10: RepoService.getOrCreateFromGitHub(fullName) that finds no         *)
(* snapshot with that fullName fetches the core data by full name once    *)
(* and leaves exactly one snapshot whose githubId is the fetched id; the  *)
(* snapshot it returns is that one and carries the fetched id and the     *)
(* requested name.                                                        *)
C10_MissUpserts ==
  \A p \in Procs :
    LET t == task[p]
    IN Done(p, "getOrCreateFromGitHub") /\ t.cached = NoDoc /\ t.gh # NoData
       => /\ t.calls = <<Call("repo", t.argName, 200)>>
          /\ Cardinality(ByGithubId(t.gh.id)) = 1
          /\ t.ret.kind = "return" =>
                /\ t.ret.doc.githubId = t.gh.id
                /\ t.ret.doc.fullName = t.argName
                /\ ByGithubId(t.gh.id) = {t.ret.doc._id}

(* the snapshot stored as a/x is found by the fetched id and renamed *)
C10_Witness ==
  \E p \in Procs :
    LET t == task[p]
    IN /\ Done(p, "getOrCreateFromGitHub") /\ t.cached = NoDoc
       /\ t.argName = "b/y" /\ t.gh.id = 1 /\ started = 1
       /\ Len(store) = 1 /\ store[1].githubId = 1 /\ store[1].fullName = "b/y"
       /\ t.ret = Return(store[1])

(* the lookup of task t did not take its snapshot as fresh: it went on to *)
(* the remote                                                             *)
Refreshing(t) == t.pc # "done" \/ t.calls # <<>>

(* task t is a lookup that decides with RepoSnapshot.needsSync *)
ByNeedsSync(t) ==
  \/ t.op \in {"getRepoByGitHubId", "getOrCreateFromGitHub"}
  \/ t.op = "getRepoById" /\ ~t.force

(* C11 as stated: the freshness check, in needsSync and in the inline     *)
(* check of getRepositoryById alike, takes a snapshot synchronised now as *)
(* fresh and one synchronised two hours ago, or never, as in need of a    *)
(* refresh.                                                               *)
C11_OneHourEverywhere ==
  \A p \in Procs :
    LET t == task[p]
        c == t.cached
    IN c # NoDoc /\ (ByNeedsSync(t) \/ t.op = "getRepositoryById")
       => /\ c.lastSyncedAt = now => ~Refreshing(t)
          /\ c.lastSyncedAt = NullTime => Refreshing(t)
          /\ c.lastSyncedAt # NullTime /\ now - c.lastSyncedAt = 2 => Refreshing(t)

(* C11, amended: both checks take a snapshot synchronised now as fresh    *)
(* and one never synchronised as in need of a refresh; a snapshot         *)
(* synchronised two hours ago needs a refresh for the inline check of     *)
(* getRepositoryById (1-hour window) but is fresh for needsSync, which    *)
(* asks for a refresh only after more than 24 hours.                      *)
C11_FreshnessWindows ==
  \A p \in Procs :
    LET t == task[p]
        c == t.cached
        age == now - c.lastSyncedAt
    IN c # NoDoc
       => /\ ByNeedsSync(t) =>
               /\ c.lastSyncedAt = now => ~Refreshing(t)
               /\ c.lastSyncedAt = NullTime => Refreshing(t)
               /\ c.lastSyncedAt # NullTime /\ age = 2 => ~Refreshing(t)
               /\ c.lastSyncedAt # NullTime /\ age = 24 => ~Refreshing(t)
               /\ c.lastSyncedAt # NullTime /\ age > 24 => Refreshing(t)
          /\ t.op = "getRepositoryById" =>
               /\ c.lastSyncedAt = now => ~Refreshing(t)
               /\ c.lastSyncedAt = NullTime => Refreshing(t)
               /\ c.lastSyncedAt # NullTime /\ age >= 1 => Refreshing(t)

(* a snapshot synchronised two hours ago is returned by getRepoById       *)
(* without a remote request                                               *)
C11_Witness ==
  \E p \in Procs :
    LET t == task[p]
    IN /\ Done(p, "getRepoById") /\ ~t.force
       /\ t.cached # NoDoc /\ t.cached.lastSyncedAt = 0 /\ now = 2
       /\ t.calls = <<>> /\ t.ret = Return(t.cached)

(* C12: RepoService.loadReadme requests the README from the remote        *)
(* exactly when the cached README is empty (null or ""), or               *)
(* readmeFetchedAt is null, or readmeFetchedAt is more than 7 days (168   *)
(* hours) old; otherwise it returns the cached README without a request   *)
(* and without a write.                                                   *)
C12_ReadmeRefresh ==
  \A p \in Procs :
    LET t == task[p]
        c == t.cached
        stale == \/ c.readme = NullReadme
                 \/ c.readme = 0
                 \/ c.readmeFetchedAt = NullTime
                 \/ now - c.readmeFetchedAt > ReadmeWindowHours
    IN Done(p, "loadReadme") /\ c # NoDoc
       => /\ stale => Len(t.calls) = 1 /\ t.calls[1].api = "readme"
          /\ ~stale => /\ t.calls = <<>>
                       /\ t.changed = {}
                       /\ t.ret = ReturnReadme(c.readme)

(* a README fetched exactly 7 days ago is returned from the cache *)
C12_Witness ==
  \E p \in Procs :
    LET t == task[p]
    IN /\ Done(p, "loadReadme")
       /\ t.cached.readme = 100 /\ t.cached.readmeFetchedAt = 0
       /\ now = ReadmeWindowHours
       /\ t.calls = <<>> /\ t.ret = ReturnReadme(100)

Abs(x) == IF x < 0 THEN -x ELSE x

(* C13: every entry RepoService.loadLanguages stores and returns for a    *)
(* fetched byte map with positive total has percentage equal to           *)
(* bytes * 100 / total rounded to the nearest integer (a whole percent,   *)
(* at most half a percent away from the exact share).                     *)
C13_IntegerPercent ==
  \A p \in Procs :
    LET t == task[p]
        l == t.ret.languages
        total == SumBytes(l)
    IN Done(p, "loadLanguages") /\ t.calls # <<>> /\ LastStatus(t) = 200 /\ total > 0
       => /\ store[t.doc._id].languages = l
          /\ \A i \in 1..Len(l) :
               /\ l[i].percentage % 10 = 0
               /\ 2 * Abs(l[i].percentage * total - 1000 * l[i].bytes) <= 10 * total

(* C14: RepoSnapshot.findOrCreateFromGitHub(id, data) called a second     *)
(* time with the same data, with no other request in between, leaves      *)
(* exactly one record for id, the one the first call returned, and every  *)
(* field of it other than lastSyncedAt is as the first call left it.      *)
C14_UpsertIdempotent ==
  \A p \in Procs :
    LET t == task[p]
    IN Done(p, "findOrCreateFromGitHub") /\ t.first # NoDoc /\ started = 2
       => /\ t.ret.kind = "return"
          /\ ByGithubId(t.argId) = {t.first._id}
          /\ [t.ret.doc EXCEPT !.lastSyncedAt = t.first.lastSyncedAt] = t.first
          /\ store[t.first._id] = t.ret.doc

(* the second call ran an hour or more after the first *)
C14_Witness ==
  \E p \in Procs :
    LET t == task[p]
    IN /\ Done(p, "findOrCreateFromGitHub") /\ t.first # NoDoc /\ started = 2
       /\ Len(store) = 1
       /\ t.ret.doc.stars = 11
       /\ t.ret.doc.lastSyncedAt > t.first.lastSyncedAt

(* findOrCreateFromGitHub of task p has just saved a snapshot it found    *)
(* under its githubId with a fullName other than the fetched one          *)
Renamed(p) ==
  /\ task[p].pc = "foc_save"
  /\ task'[p].pc # "foc_save"
  /\ ~task[p].isNew
  /\ task[p].orig.fullName # task[p].gh.full_name

(* C15: no step changes the githubId (or the _id) of a stored snapshot or *)
(* removes one; and the upsert of a snapshot found under the same         *)
(* githubId with another fullName adds no record and leaves that record,  *)
(* still the only one of its githubId, with the new fullName.             *)
C15_GithubIdKept ==
  [][/\ Len(store') >= Len(store)
     /\ \A i \in DocIds : /\ store'[i].githubId = store[i].githubId
                          /\ store'[i]._id = store[i]._id
     /\ \A p \in Procs :
          Renamed(p) => /\ Len(store') = Len(store)
                        /\ ByGithubId(task[p].gh.id)' = {task[p].orig._id}
                        /\ store'[task[p].orig._id].fullName = task[p].gh.full_name
                        /\ task'[p].doc._id = task[p].orig._id
                        /\ task'[p].doc.fullName = task[p].gh.full_name]_vars

(* an upsert renamed the only stored snapshot and returned it *)
C15_Witness ==
  \E p \in Procs :
    LET t == task[p]
    IN /\ t.pc = "done" /\ t.ret.kind = "return" /\ t.gh # NoData
       /\ "fullName" \in t.changed /\ "_id" \notin t.changed
       /\ Len(store) = 1
       /\ store[1].githubId = t.gh.id
       /\ store[1].fullName = t.gh.full_name
       /\ t.ret.doc = store[1]

(* C16: fullName is a unique key: no two stored snapshots have the same   *)
(* fullName.                                                              *)
C16_FullNameUnique ==
  \A n \in FullNames : Cardinality(ByFullName(n)) <= 1

(* bulkSyncRepositories has returned or thrown *)
BulkDone == /\ 0 \in DOMAIN task
            /\ task[0].pc = "done"
            /\ task[0].op = "bulkSyncRepositories"

(* the targets whose syncRepository call returned, and those where it threw *)
Succeeded == {i \in DOMAIN task[0].targets : task[i].ret.kind = "return"}
Failing == {i \in DOMAIN task[0].targets : task[i].ret.kind = "throw"}

Rank(i) == Cardinality({j \in Succeeded : j <= i})

(* C18: bulkSyncRepositories starts the sync of every target whatever     *)
(* happens to the others (each target's core request is issued or about   *)
(* to be), never rejects, and returns exactly the snapshots of the        *)
(* targets whose sync succeeded, in the order of the targets.             *)
C18_AllSettled ==
  /\ 0 \in DOMAIN task /\ task[0].op = "bulkSyncRepositories"
     => \A i \in DOMAIN task[0].targets :
          /\ task[i].op = "syncRepository"
          /\ task[i].argName = task[0].targets[i]
          /\ \/ task[i].pc = "sr_fetch"
             \/ /\ task[i].calls # <<>>
                /\ task[i].calls[1].api = "repo"
                /\ task[i].calls[1].target = task[0].targets[i]
  /\ BulkDone
     => /\ task[0].ret.kind = "return"
        /\ Succeeded \cup Failing = DOMAIN task[0].targets
        /\ Len(task[0].ret.docs) = Cardinality(Succeeded)
        /\ \A i \in Succeeded :
             /\ task[0].ret.docs[Rank(i)] = task[i].ret.doc
             /\ task[i].ret.doc.fullName = task[0].targets[i]
             /\ task[i].ret.doc._id \in DocIds

(* the first target failed and the two after it were synced and returned *)
C18_Witness ==
  /\ BulkDone
  /\ Len(task[0].targets) = 3
  /\ Failing = {1}
  /\ task[0].ret.docs = <<task[2].ret.doc, task[3].ret.doc>>
  /\ task[2].calls # <<>> /\ task[3].calls # <<>>

(* a direct request of the client failed and its error has been thrown *)
RequestFailed(p) == Done(p, "getRepository") /\ task[p].ret.kind = "throw"

C20_RateLimitSignal ==
  \A p \in Procs :
    RequestFailed(p) /\ task[p].ret.err.statusCode = 429 =>
      LET r == task[p].response
      IN /\ r.status = 403
         /\ r.remaining = 0
         /\ r.reset # NoHeader
            => task[p].ret.err # onRejected([r EXCEPT !.reset = NoHeader])

(* C21: every request to the remote applies a bounded timeout, so a       *)
(* pending request always ends, with a response or as a failure, also     *)
(* when the remote never answers.                                         *)
C21_BoundedTimeout ==
  \A p \in Procs :
    (task[p].pc \in RemoteLabels) ~> (task[p].pc \notin RemoteLabels)

(* loadReadme or loadLanguages of task p is over and its request failed *)
EnrichmentFailed(p) ==
  /\ Done(p, "loadReadme") \/ Done(p, "loadLanguages")
  /\ task[p].calls # <<>>
  /\ LastStatus(task[p]) # 200

(* C22: loadReadme and loadLanguages on a stored snapshot do not throw    *)
(* when their request fails: they return what the snapshot they read      *)
(* holds (its README or null; its language list) and write nothing; a     *)
(* 404 for the README is not an error.                                    *)
C22_EnrichmentSwallows ==
  \A p \in Procs :
    LET t == task[p]
    IN EnrichmentFailed(p) =>
         /\ t.ret.kind = "return"
         /\ t.changed = {}
         /\ t.op = "loadReadme"
            => /\ t.ret.readme \in {t.cached.readme, NullReadme}
               /\ ~NoReadme(t.cached.readme) => t.ret.readme = t.cached.readme
               /\ LastStatus(t) = 404 => t.err = NoErr
         /\ t.op = "loadLanguages" => t.ret.languages = t.cached.languages

(* a request for a stale README failed with 500: the cached one is returned *)
C22_Witness ==
  \E p \in Procs :
    /\ EnrichmentFailed(p)
    /\ task[p].op = "loadReadme"
    /\ LastStatus(task[p]) = 500
    /\ task[p].ret.readme = 100

(* C23: an operation that received a README of 50,000 characters or more  *)
(* succeeds and the stored readme is its first 50,000 characters.         *)
C23_ReadmeCapped ==
  \A p \in DOMAIN task :
    LET t == task[p]
    IN /\ t.pc = "done"
       /\ t.op \in {"loadReadme", "getRepositoryById", "ctlGetRepoReadme"}
       /\ t.doc # NoDoc
       /\ t.doc.readme >= ReadmeMaxLength
       => /\ t.ret.kind = "return"
          /\ t.err = NoErr
          /\ t.doc._id \in DocIds
          /\ store[t.doc._id].readme = ReadmeMaxLength

(* the operations that refresh the core fields *)
CoreRefreshOps ==
  {"getRepoById", "getRepoByGitHubId", "getOrCreateFromGitHub",
   "findOrCreateFromGitHub", "getRepositoryById", "syncRepository"}

EnrichmentFields == {"readme", "readmeFetchedAt", "languages"}

(* C24: a core refresh issues no README or languages request and changes  *)
(* none of the stored readme, readmeFetchedAt and languages.              *)
C24_RefreshNotBundled ==
  \A p \in DOMAIN task :
    LET t == task[p]
    IN t.op \in CoreRefreshOps =>
         /\ \A i \in 1..Len(t.calls) : t.calls[i].api \notin {"readme", "languages"}
         /\ t.changed \cap EnrichmentFields = {} \/ "_id" \in t.changed

(* the core requests task t has issued *)
CoreCalls(t) ==
  Cardinality({i \in 1..Len(t.calls) : t.calls[i].api \in {"repo", "repositories"}})

(* task t looked a stored snapshot up that was stale at that time: older  *)
(* than 24 hours for RepoService.getRepoById, than 1 hour for             *)
(* GitHubService.getRepositoryById (the clock stands still meanwhile)     *)
ObservedStale(t) ==
  /\ t.cached # NoDoc
  /\ t.cached.lastSyncedAt # NullTime
  /\ \/ /\ t.op = "getRepoById" /\ ~t.force
        /\ now - t.cached.lastSyncedAt > SyncWindowHours
     \/ /\ t.op = "getRepositoryById"
        /\ now - t.cached.lastSyncedAt >= FreshWindowHours

(* C25 (as stated): every caller that observed the snapshot stale issues  *)
(* one remote core fetch, so that there are as many fetches as callers.   *)
C25_OneFetchPerCaller ==
  \A p \in Procs :
    ObservedStale(task[p]) /\ task[p].pc = "done" => CoreCalls(task[p]) = 1

(* C25 (amended): every caller that observed the snapshot stale issues    *)
(* its own core requests, whatever the other callers do: one for          *)
(* getRepoById; for getRepositoryById the request by id and, when that    *)
(* succeeded, the request by name; and when its requests succeeded it     *)
(* ran its own update and save.                                           *)
C25_OwnFetches ==
  \A p \in Procs :
    LET t == task[p]
    IN ObservedStale(t) =>
         /\ t.op = "getRepoById"
            => CoreCalls(t) = IF t.pc = "sync_fetch" THEN 0 ELSE 1
         /\ t.op = "getRepositoryById"
            => CoreCalls(t) = IF t.pc = "gbi_fetch" THEN 0
                              ELSE IF t.pc = "sr_fetch" THEN 1
                              ELSE IF t.calls[1].status = 200 THEN 2 ELSE 1
         /\ t.pc = "done" /\ ~CoreFetchFailed(t)
            => /\ t.refreshedAt = now
               /\ t.ret.kind = "return"
               /\ t.ret.doc.lastSyncedAt = now

(* two callers read the same stale snapshot before either wrote; one has  *)
(* finished its refresh, the other holds its own fetched data             *)
C25_Witness ==
  \E p, q \in Procs :
    /\ p # q
    /\ ObservedStale(task[p]) /\ ObservedStale(task[q])
    /\ task[p].cached = task[q].cached
    /\ task[p].pc = "done" /\ CoreCalls(task[p]) = 1 /\ ~CoreFetchFailed(task[p])
    /\ task[q].pc = "sync_save" /\ CoreCalls(task[q]) = 1

(* C26: getRepoByFullName answers a cached snapshot without a remote      *)
(* request exactly when the snapshot is fresh (synchronised at most 24    *)
(* hours ago); for a stale one it requests the remote first.              *)
C26_FullNameFreshness ==
  \A p \in Procs :
    LET t == task[p]
    IN Done(p, "ctlGetRepoByFullName") /\ t.cached # NoDoc
       => (t.calls = <<>> <=> ~needsSync(t.cached, now))

(* C27: after a successful refresh of a stored snapshot through           *)
(* RepoService.syncRepo or GitHubController.syncRepo the stored core      *)
(* fields are those of the remote repository that has the snapshot's      *)
(* githubId.                                                              *)
C27_OwnRepositoryData ==
  \A p \in Procs :
    LET t == task[p]
    IN /\ t.pc = "done"
       /\ t.op \in {"getRepoById", "getRepoByGitHubId", "ctlSyncRepo"}
       /\ t.gh # NoData
       /\ "stars" \in t.changed \/ "description" \in t.changed
       => t.gh.id = store[t.doc._id].githubId

(* C28: every call of RepoSnapshot.findOrCreateFromGitHub, also one that  *)
(* runs while another call for the same githubId is in progress,          *)
(* completes by returning the stored snapshot of that githubId; none      *)
(* fails with a duplicate-key error.                                      *)
C28_ConcurrentUpsertSucceeds ==
  \A p \in Procs :
    Done(p, "findOrCreateFromGitHub")
      => /\ task[p].ret.kind = "return"
         /\ task[p].err # DuplicateKey
         /\ \E i \in ByGithubId(task[p].argId) : task[p].ret.doc._id = i

(* the fields of a snapshot that updateFromGitHub writes from the remote  *)
(* repository                                                             *)
CoreFields ==
  {"ownerLogin", "name", "fullName", "description",
   "stars", "forks", "watchers", "openIssues"}

CoreOf(doc) == [f \in CoreFields |-> doc[f]]

(* C29: stored core fields never regress: a task that fetched the remote  *)
(* state before the state now stored was fetched (the stored              *)
(* lastSyncedAt is later than the task's own fetch) does not overwrite    *)
(* the stored core fields.                                                *)
C29_NoRegression ==
  [][\A p \in Procs :
       LET t == task[p]
           i == t.doc._id
       IN /\ t.refreshedAt # NullTime
          /\ i \in DOMAIN store
          /\ store[i].lastSyncedAt > t.refreshedAt
          => CoreOf(store'[i]) = CoreOf(store[i])]_vars

(* the loader that task t has just run on the snapshot of getRepoDetails  *)
(* stored field f: its document differs in f from the one it had read     *)
LoaderStored(t, f) ==
  /\ t.doc._id = t.first._id
  /\ t.cached._id = t.first._id
  /\ t.doc[f] # t.cached[f]
  /\ t.orig[f] = t.doc[f]

(* C30: the repo that RepoService.getRepoDetails returns contains the     *)
(* README that its loadReadme call stored and the language list that its  *)
(* loadLanguages call stored.                                             *)
C30_DetailsReflectEnrichment ==
  \A p \in Procs :
    LET t == task[p]
    IN t.op = "getRepoDetails" =>
         /\ t.pc = "grd_langs" /\ LoaderStored(t, "readme")
               => t.first.readme = t.doc.readme
         /\ t.pc \in {"grd_return", "done"} /\ LoaderStored(t, "languages")
               => t.first.languages = t.doc.languages
         /\ t.pc = "done" /\ t.ret.kind = "return" => t.ret.doc = t.first

(* ---------------------------- specifications -------------------------- *)
Clock == Tick \/ \E p \in Procs : Finish(p)

FindOrCreate == \E p \in Procs : FocFind(p) \/ FocSave(p)

RepoServiceSteps ==
  \E p \in Procs :
    \/ GetOrCreateFromGitHub(p)
    \/ GocFetch(p)
    \/ GetRepoById(p)
    \/ GetRepoByGitHubId(p)
    \/ SyncFetch(p)
    \/ SyncSave(p)
    \/ SyncSaveErr(p)

ControllerSteps ==
  \E p \in Procs :
    \/ CtlSyncRepo(p)
    \/ CtlSyncFetch(p)
    \/ CtlSyncSave(p)
    \/ CtlSyncSaveErr(p)

(* a lookup by GitHub id that starts while no other one is running *)
LookupById(p) ==
  /\ \A q \in Procs : task[q].op # "getRepositoryById"
  /\ GetRepositoryById(p)

GitHubServiceSteps ==
  \E p \in Procs :
    \/ LookupById(p)
    \/ GbiFetch(p)
    \/ SrFetch(p)
    \/ SrReadme(p)
    \/ SrLangs(p)
    \/ SrSave(p)

EnrichmentSteps ==
  \E p \in Procs :
    \/ LoadReadme(p)
    \/ LrFetch(p)
    \/ LrSave(p)
    \/ LoadLanguages(p)
    \/ LlFetch(p)
    \/ LlSave(p)

CreateSteps == \E p \in Procs : GetOrCreateFromGitHub(p) \/ GocFetch(p)

(* the lookups and refreshes of RepoService, two requests at a time *)
NextRepo == Clock \/ FindOrCreate \/ RepoServiceSteps

SpecRepo == Init /\ [][NextRepo]_vars

(* the lookup by GitHub id of GitHubService, one at a time, next to a     *)
(* request that creates snapshots                                         *)
NextGitHub == Clock \/ FindOrCreate \/ GitHubServiceSteps \/ CreateSteps

SpecGitHub == Init /\ [][NextGitHub]_vars

(* every operation on snapshots, two requests at a time *)
Next ==
  \/ Clock
  \/ FindOrCreate
  \/ RepoServiceSteps
  \/ ControllerSteps
  \/ GitHubServiceSteps
  \/ EnrichmentSteps

Spec == Init /\ [][Next]_vars

(* ------------------------- aged snapshots ----------------------------- *)
(* hours that passed since the stored snapshot was written *)
Ages == {0, 1, 2, 24, 25}

(* one snapshot, synchronised at hour 0 or never, looked up Ages later *)
InitFresh ==
  /\ store \in {<<[Seed EXCEPT !.lastSyncedAt = l]>> : l \in {NullTime, 0}}
  /\ now \in Ages
  /\ ticks = 0
  /\ started = 0
  /\ task = [p \in Procs |-> Idle]

Returns == \E p \in Procs : Finish(p)

(* the lookups of RepoService and GitHubService at a fixed time *)
NextFresh == Returns \/ FindOrCreate \/ RepoServiceSteps \/ GitHubServiceSteps

SpecFresh == InitFresh /\ [][NextFresh]_vars

UpsertSteps == \E p \in Procs : FindOrCreateFromGitHub(p) \/ FocAgain(p)

(* direct upserts, each possibly repeated by its caller *)
NextUpsert == Clock \/ FindOrCreate \/ UpsertSteps

SpecUpsert == Init /\ [][NextUpsert]_vars

(* a snapshot whose README and languages earlier requests have loaded *)
Enriched(doc) ==
  [doc EXCEPT !.readme = 100, !.readmeFetchedAt = 0,
              !.languages = SyncPercentages(CHOOSE m \in LangMaps : TRUE)]

(* a store that holds both repositories *)
SeedTwo ==
  <<Enriched(Seed),
    Enriched([Seed EXCEPT !._id = 2, !.githubId = 2, !.ownerLogin = "b",
                          !.name = "y", !.fullName = "b/y"])>>

(* Both repositories are stored with README and languages, so that every  *)
(* syncRepository call finds its snapshot and goes from the upsert to the  *)
(* final save.                                                            *)
InitBulk ==
  /\ store = SeedTwo
  /\ now = 0
  /\ ticks = 0
  /\ started = 0
  /\ task = [p \in BulkProcs |-> Idle]

BulkSteps ==
  \/ BulkSyncRepositories
  \/ BulkReturn
  \/ BulkFinish
  \/ \E p \in BulkProcs :
       \/ BulkSettle(p)
       \/ SrFetch(p) \/ FocFind(p) \/ FocSave(p) \/ SrSave(p)

NextBulk == BulkSteps

SpecBulk == InitBulk /\ [][NextBulk]_vars

ClientSteps == \E p \in Procs : GetRepository(p) \/ GrFetch(p)

(* direct requests through the client *)
NextClient == Returns \/ ClientSteps

SpecClient == Init /\ [][NextClient]_vars

TimeoutSteps ==
  \E p \in Procs :
    \/ GetRepository(p) \/ GrFetch(p)
    \/ CtlGetRepoByFullName(p) \/ CfnFetch(p)
    \/ CtlGetRepoReadme(p) \/ CrmFetch(p) \/ CrmSave(p)

NextTimeout == Returns \/ FindOrCreate \/ TimeoutSteps

(* A request made with a timeout ends even when the remote never answers  *)
(* (the timeout is a failure without response), so its step is taken      *)
(* under weak fairness: the GitHubService client has timeout: 10000, the  *)
(* raw https requests request.setTimeout(10000).  githubApi is created    *)
(* without a timeout (the axios default is none): its request has no      *)
(* fairness, the remote may leave it pending for ever.  The event loop    *)
(* runs every continuation that is ready.                                 *)
TimeoutFairness ==
  \A p \in Procs :
    /\ WF_vars(GrFetch(p))
    /\ WF_vars(CrmFetch(p))
    /\ WF_vars(CrmSave(p))
    /\ WF_vars(FocFind(p))
    /\ WF_vars(FocSave(p))
    /\ WF_vars(Finish(p))

SpecTimeout == Init /\ [][NextTimeout]_vars /\ TimeoutFairness

LanguageSteps == \E p \in Procs : LoadLanguages(p) \/ LlFetch(p) \/ LlSave(p)

NextLanguages == Clock \/ LanguageSteps

SpecLanguages == Init /\ [][NextLanguages]_vars

(* hours that passed since the README was fetched: around the 7 days *)
ReadmeAges == {0, 167, 168, 169}

(* one snapshot whose README is null, empty or present and was fetched at *)
(* hour 0 or never (the schema defaults both fields independently)        *)
InitReadme ==
  /\ store \in {<<[Seed EXCEPT !.readme = r, !.readmeFetchedAt = f]>> :
                  r \in {NullReadme, 0, 100}, f \in {NullTime, 0}}
  /\ now \in ReadmeAges
  /\ ticks = 0
  /\ started = 0
  /\ task = [p \in Procs |-> Idle]

ReadmeSteps == \E p \in Procs : LoadReadme(p) \/ LrFetch(p) \/ LrSave(p)

NextReadme == Returns \/ ReadmeSteps

SpecReadme == InitReadme /\ [][NextReadme]_vars

(* both loaders on a snapshot whose README is absent, empty or present *)
NextEnrich == Returns \/ ReadmeSteps \/ LanguageSteps

SpecEnrich == InitReadme /\ [][NextEnrich]_vars

(* Ages of the two stored snapshots at which the lookups run: both fresh,  *)
(* stale for the 1-hour window only, stale for both                       *)
StaleAges == {0, 2, 25}

InitStale ==
  /\ store = SeedTwo
  /\ now \in StaleAges
  /\ ticks = 0
  /\ started = 0
  /\ task = [p \in Procs |-> Idle]

StaleSteps ==
  \E p \in Procs :
    \/ GetRepoById(p) \/ SyncFetch(p) \/ SyncSave(p) \/ SyncSaveErr(p)
    \/ GetRepositoryById(p) \/ GbiFetch(p) \/ SrFetch(p) \/ SrSave(p)

(* lookups by id of both services, two at a time, on stored snapshots *)
NextStale == Returns \/ FindOrCreate \/ StaleSteps

SpecStale == InitStale /\ [][NextStale]_vars

FullNameSteps == \E p \in Procs : CtlGetRepoByFullName(p) \/ CfnFetch(p)

(* the controller's lookup by full name, two requests at a time *)
NextFullName == Clock \/ FindOrCreate \/ FullNameSteps

SpecFullName == Init /\ [][NextFullName]_vars

DetailSteps ==
  \E p \in Procs :
    \/ GetRepoDetails(p) \/ GocFetch(p)
    \/ GrdLoadReadme(p) \/ LrFetch(p) \/ LrSave(p)
    \/ GrdLoadLanguages(p) \/ LlFetch(p) \/ LlSave(p)
    \/ GrdReturn(p)

(* the details of a repository, two requests at a time *)
NextDetails == Returns \/ FindOrCreate \/ DetailSteps

(* the snapshot a/x is stored without README and languages; b/y is not    *)
(* stored and is created by the request                                   *)
InitDetails == Init /\ store = <<Seed>>

SpecDetails == InitDetails /\ [][NextDetails]_vars

====
